---- MODULE Spec2Model ----
(***************************************************************************)
(* A model of plothist/plotters.py: the histogram construction helpers     *)
(* (create_axis, make_hist, make_2d_hist) and the plotting entry points,   *)
(* seen as calls made one after the other by a single-threaded caller.     *)
(* The state that                                                          *)
(* survives a call is the Python-level state the functions share: the     *)
(* dict objects bound to mutable default arguments, the dict objects the   *)
(* caller owns, and numpy's process-wide floating-point error settings.    *)
(* Each action is one complete call; `last` records the call, the events   *)
(* it issued on the plotting library, in order, and how it ended.          *)
(***************************************************************************)
EXTENDS Integers, Sequences, FiniteSets, TLC

VARIABLES last, heap, made, np_err

vars == <<last, heap, made, np_err>>

\* ------------------------------------------------------------------ bounds
\* longest data sequence handed to create_axis
MaxLen == 2
\* largest finite value of a data point or of a range limit
MaxVal == 1
\* largest integer number of bins
MaxBins == 2
\* most runs of equal data points handed to make_hist
MaxRuns == 2
\* largest weight (the smallest is -1)
MaxWeight == 1
\* most histograms in a list of model components
MaxComps == 1

\* ------------------------------------------------------- floating values
\* A float is <<kind, n>>: a finite number n, an infinity of sign n, or nan.
\* The strings "min" and "max" a range may hold are values of their own kind.
Num(n) == <<"num", n>>
PInf == <<"inf", 1>>
NInf == <<"inf", -1>>
NaN == <<"nan", 0>>
MinStr == <<"min", 0>>
MaxStr == <<"max", 0>>
None == <<"None", 0>>
\* range=None, and a range as the pair of its limits
NoRange == <<None, None>>

Floats == {Num(n) : n \in 0..MaxVal} \cup {PInf, NInf, NaN}

\* np.isfinite
isfinite(x) == x[1] = "num"

\* Python's < on floats: every comparison with nan is False
Lt(a, b) ==
  CASE a[1] = "nan" \/ b[1] = "nan" -> FALSE
    [] a = NInf -> b # NInf
    [] a = PInf -> FALSE
    [] b = NInf -> FALSE
    [] b = PInf -> TRUE
    [] OTHER -> a[2] < b[2]

Gt(a, b) == Lt(b, a)

\* Python's == on floats: nan is equal to nothing
FEq(a, b) == a[1] # "nan" /\ b[1] # "nan" /\ a = b

\* builtin min(data): keeps the first item, replaces it by each later item
\* that compares smaller
RECURSIVE MinFrom(_, _, _)
MinFrom(data, i, cur) ==
  IF i > Len(data) THEN cur
  ELSE MinFrom(data, i + 1, IF Lt(data[i], cur) THEN data[i] ELSE cur)

PyMin(data) == MinFrom(data, 2, data[1])

\* builtin max(data)
RECURSIVE MaxFrom(_, _, _)
MaxFrom(data, i, cur) ==
  IF i > Len(data) THEN cur
  ELSE MaxFrom(data, i + 1, IF Gt(data[i], cur) THEN data[i] ELSE cur)

PyMax(data) == MaxFrom(data, 2, data[1])

\* ------------------------------------------------------------ create_axis
\* bins is an integer count, <<"int", n>>, or a sequence of more than one
\* bin edges, <<"edges", e>>.  len(bins) of an integer raises TypeError.
BinsN(bins) == IF bins[1] = "int" THEN 1 ELSE Len(bins[2])

\* the limits the range resolves to; min()/max() of empty data raise
UsesData(range) == range[1] = MinStr \/ range[2] = MaxStr
XMin(data, range) == IF range[1] = MinStr THEN PyMin(data) ELSE range[1]
XMax(data, range) == IF range[2] = MaxStr THEN PyMax(data) ELSE range[2]

\* the test that rejects a range whose limits are in the wrong order
RangeRejectedWhenEqual(x_min, x_max) == ~ Lt(x_min, x_max)
RangeRejected(x_min, x_max) == Gt(x_min, x_max)

\* the test that rejects limits that are not finite
NotFiniteNeverChecked(x_min, x_max) == FALSE
NotFinite(x_min, x_max) == ~ (isfinite(x_min) /\ isfinite(x_max))

AxisError(msg, warn) == [out |-> "ValueError", msg |-> msg, axis |-> <<>>, warn |-> warn]

\* bh.axis.Regular(bins, x_min, x_max), the edges kept doubled so that the
\* half units of an expanded empty range stay integers
Regular(n, x_min, x_max) ==
  [out |-> "axis",
   msg |-> "",
   axis |-> IF FEq(x_min, x_max)
              THEN <<"Regular", n, 2 * x_min[2] - 1, 2 * x_max[2] + 1>>
              ELSE <<"Regular", n, 2 * x_min[2], 2 * x_max[2]>>,
   warn |-> FALSE]

create_axis(data, bins, range) ==
  IF BinsN(bins) > 1
    THEN [out |-> "axis", msg |-> "", axis |-> <<"Variable", bins[2]>>,
          warn |-> range # NoRange]
  ELSE IF range # NoRange
    THEN IF UsesData(range) /\ Len(data) = 0
           THEN AxisError("arg is an empty sequence", FALSE)
         ELSE IF RangeRejected(XMin(data, range), XMax(data, range))
           THEN AxisError("Max must be larger than min", FALSE)
         ELSE IF NotFinite(XMin(data, range), XMax(data, range))
           THEN AxisError("Range is not finite", FALSE)
         ELSE Regular(bins[2], XMin(data, range), XMax(data, range))
  ELSE IF Len(data) = 0
    THEN Regular(bins[2], Num(0), Num(1))
  ELSE IF NotFinite(PyMin(data), PyMax(data))
    THEN AxisError("Autodetected range is not finite", FALSE)
  ELSE Regular(bins[2], PyMin(data), PyMax(data))

\* ---------------------------------------------------------------- make_hist
\* data is a sequence of runs <<value, count>>: count points of that value.
\* min() and max() of the data are those of the runs' values in order.
Values(data) == [i \in 1..Len(data) |-> data[i][1]]

\* weights is None, a scalar or one weight per run of points
NoWeights == <<"None", <<>>>>
WeightOf(weights, i) ==
  CASE weights[1] = "None" -> 1
    [] weights[1] = "scalar" -> weights[2][1]
    [] OTHER -> weights[2][i]

\* the bin a value is filled into is a regular bin, not underflow or overflow:
\* bins are half-open, nan and the upper edge go to overflow
InRange(v, axis) ==
  /\ isfinite(v)
  /\ IF axis[1] = "Regular"
       THEN axis[3] <= 2 * v[2] /\ 2 * v[2] < axis[4]
       ELSE axis[2][1] <= v[2] /\ v[2] < axis[2][Len(axis[2])]

\* h.values().sum() and h.values(flow=True).sum() after h.fill
RECURSIVE FilledSum(_, _, _, _, _)
FilledSum(data, weights, axis, flow, i) ==
  IF i > Len(data) THEN 0
  ELSE (IF flow \/ InRange(data[i][1], axis)
          THEN data[i][2] * WeightOf(weights, i) ELSE 0)
       + FilledSum(data, weights, axis, flow, i + 1)

\* range_coverage < 0.99, where range_coverage = inside / total in floating
\* point: x/0 is inf, -inf or nan, and nan compares False
LowCoverage(inside, total) ==
  IF total > 0 THEN 100 * inside < 99 * total
  ELSE IF total < 0 THEN 100 * inside > 99 * total
  ELSE inside < 0

make_hist(data, bins, range, weights) ==
  LET a == create_axis(Values(data), bins, range)
      inside == FilledSum(data, weights, a.axis, FALSE, 1)
      total == FilledSum(data, weights, a.axis, TRUE, 1)
  IN IF a.out # "axis"
       THEN [out |-> a.out, msg |-> a.msg, axis |-> <<>>, storage |-> "",
             inside |-> 0, total |-> 0, warn_range |-> FALSE, warn_coverage |-> FALSE]
     ELSE [out |-> "hist", msg |-> "", axis |-> a.axis,
           storage |-> IF weights = NoWeights THEN "Double" ELSE "Weight",
           inside |-> inside, total |-> total,
           warn_range |-> a.warn,
           warn_coverage |-> LowCoverage(inside, total)]

\* -------------------------------------------------------------- make_2d_hist
\* data is the sequence of its components, each a sequence of floats; bins and
\* range are pairs, one item per dimension; weights is a scalar.  tr lists
\* the axes and the histogram created, in order.
Error2d(msg, tr) ==
  [out |-> "ValueError", msg |-> msg, tr |-> tr, axes |-> <<>>, storage |-> "",
   warn_range |-> <<>>, warn_coverage |-> FALSE]

\* `if len(data) != 2`
WrongComponents(data) == Len(data) # 2
\* `if len(data[0]) != len(data[1])`
LengthsDifferNeverChecked(data) == FALSE
LengthsDiffer(data) == Len(data[1]) # Len(data[2])

\* h.values().sum() and h.values(flow=True).sum() after h.fill(*data, weight=weights)
RECURSIVE Filled2dSum(_, _, _, _, _, _, _)
Filled2dSum(x, y, weights, x_axis, y_axis, flow, i) ==
  IF i > Len(x) THEN 0
  ELSE (IF flow \/ (InRange(x[i], x_axis) /\ InRange(y[i], y_axis)) THEN weights ELSE 0)
       + Filled2dSum(x, y, weights, x_axis, y_axis, flow, i + 1)

\* h.fill and what follows it; fill refuses arrays of unequal lengths
Fill2d(data, x_axis, y_axis, weights) ==
  IF Len(data[1]) # Len(data[2])
    THEN Error2d("spans must have compatible lengths",
                 <<"create_axis", "create_axis", "bh.Histogram">>)
  ELSE [out |-> "hist", msg |-> "",
        tr |-> <<"create_axis", "create_axis", "bh.Histogram">>,
        axes |-> <<x_axis.axis, y_axis.axis>>,
        storage |-> "Weight",
        warn_range |-> <<x_axis.warn, y_axis.warn>>,
        warn_coverage |->
          LowCoverage(Filled2dSum(data[1], data[2], weights, x_axis.axis, y_axis.axis,
                                  FALSE, 1),
                      Filled2dSum(data[1], data[2], weights, x_axis.axis, y_axis.axis,
                                  TRUE, 1))]

\* bh.Histogram(create_axis(...), create_axis(...), storage=bh.storage.Weight())
\* and what follows it: an axis that create_axis refuses ends the call
Histogram2d(data, x_axis, y_axis, weights) ==
  IF x_axis.out # "axis" THEN Error2d(x_axis.msg, <<"create_axis">>)
  ELSE IF y_axis.out # "axis" THEN Error2d(y_axis.msg, <<"create_axis", "create_axis">>)
  ELSE Fill2d(data, x_axis, y_axis, weights)

make_2d_hist(data, bins, range, weights) ==
  IF WrongComponents(data)
    THEN Error2d("data should have two components, x and y", <<>>)
  ELSE IF LengthsDiffer(data)
    THEN Error2d("x and y must have the same length.", <<>>)
  ELSE Histogram2d(data, create_axis(data[1], bins[1], range[1]),
                   create_axis(data[2], bins[2], range[2]), weights)

\* ------------------------------------------------------------ input sets
SeqsUpTo(S, n) == UNION {[1..k -> S] : k \in 0..n}

Ascending(e) == \A i \in 1..(Len(e) - 1) : e[i] < e[i + 1]
EdgeSeqs == {e \in UNION {[1..k -> 0..MaxVal] : k \in 2..(MaxVal + 1)} : Ascending(e)}
BinsArgs == {<<"int", n>> : n \in 1..MaxBins} \cup {<<"edges", e>> : e \in EdgeSeqs}
RangeArgs == {NoRange} \cup ((Floats \cup {MinStr}) \X (Floats \cup {MaxStr}))

HistValues == {Num(0), Num(MaxVal), NaN}
Counts == {1, 99}
DataRuns == SeqsUpTo(HistValues \X Counts, MaxRuns)
WeightsFor(data) ==
  {NoWeights} \cup {<<"scalar", <<w>>>> : w \in -1..MaxWeight}
  \cup {<<"array", w>> : w \in [1..Len(data) -> -1..MaxWeight]}
HistBins == {<<"int", 1>>, <<"edges", <<0, MaxVal>>>>}
HistRanges == {NoRange, <<Num(0), Num(MaxVal)>>, <<MinStr, MaxStr>>}

\* make_2d_hist: up to three components of finite and infinite points, an
\* integer or explicit binning and no range or a finite one per dimension,
\* and the weight 1 of the default or 0
Components2d == SeqsUpTo({Num(MaxVal), PInf}, MaxLen)
Data2d == SeqsUpTo(Components2d, 3)
Bins2d == HistBins \X HistBins
Ranges2d == {NoRange, <<Num(0), Num(MaxVal)>>} \X {NoRange, <<Num(0), Num(MaxVal)>>}
Weights2d == {0, 1}

\* ------------------------------------------------- Python objects and calls
\* A dict is a function from its keys to its values, both strings.  heap maps
\* the name of each dict object that outlives a statement to its content: the
\* dicts bound to mutable default arguments when the module is loaded, one
\* dict the caller owns ("caller"), and one dict written as a literal in the
\* call being made ("literal").
EmptyDict == [k \in {} |-> ""]
\* the default, whatever the dict holds
GetDefault(d, k, default) == default
Get(d, k, default) == IF k \in DOMAIN d THEN d[k] ELSE default
Without(d, ks) == [k \in DOMAIN d \ ks |-> d[k]]
\* {**a, **b}
Merged(a, b) == [k \in DOMAIN a \cup DOMAIN b |-> IF k \in DOMAIN b THEN b[k] ELSE a[k]]
Truthy(v) == v \notin {"False", "None", ""}

DefaultDicts ==
  [p2d_pcolormesh_kwargs |-> EmptyDict,
   p2d_colorbar_kwargs |-> EmptyDict,
   proj_pcolormesh_kwargs |-> EmptyDict,
   proj_colorbar_kwargs |-> EmptyDict,
   proj_plot_hist_kwargs |-> EmptyDict,
   plot_model_sum_kwargs |-> [show |-> "True", label |-> "Sum", color |-> "navy"],
   cdm_model_sum_kwargs |-> [show |-> "True", label |-> "Sum", color |-> "navy"],
   caller |-> EmptyDict,
   literal |-> EmptyDict]

\* The running call: the heap, numpy's error settings, the events issued so
\* far, the exception being raised ("" when none) and the value returned.
\* A statement does nothing once an exception is raised.
Start(h, e) == [heap |-> h, err |-> e, tr |-> <<>>, exc |-> "", msg |-> "", ret |-> <<>>]

Raise(m, exc, msg) == IF m.exc # "" THEN m ELSE [m EXCEPT !.exc = exc, !.msg = msg]
\* `if c: raise exc(msg)`
RaiseIf(m, c, exc, msg) == IF c THEN Raise(m, exc, msg) ELSE m
Return(m, ret) == IF m.exc # "" THEN m ELSE [m EXCEPT !.ret = ret]

\* one call on the plotting library (on an object `on`) or on a helper
Event(op, on, hists, val, kw) ==
  [op |-> op, on |-> on, hists |-> hists, val |-> val, kw |-> kw]
\* the call, its keyword arguments lost
DoWithoutKeywords(m, op, on, hists, val, kw) ==
  IF m.exc # "" THEN m ELSE [m EXCEPT !.tr = Append(@, Event(op, on, hists, val, EmptyDict))]
Do(m, op, on, hists, val, kw) ==
  IF m.exc # "" THEN m ELSE [m EXCEPT !.tr = Append(@, Event(op, on, hists, val, kw))]
\* the call, with the dict object ref as its keyword arguments
DoKw(m, op, on, hists, val, ref) == Do(m, op, on, hists, val, m.heap[ref])
Call(m, op, on) == Do(m, op, on, <<>>, <<>>, EmptyDict)
\* consecutive calls, none of which raises
DoAll(m, events) == IF m.exc # "" THEN m ELSE [m EXCEPT !.tr = @ \o events]
On(op, on) == Event(op, on, <<>>, <<>>, EmptyDict)
\* `if c: <the calls>`
When(c, events) == IF c THEN events ELSE <<>>

\* d.setdefault(k, v) on the dict object ref
SetDefault(m, ref, k, v) ==
  IF m.exc # "" \/ k \in DOMAIN m.heap[ref] THEN m
  ELSE [m EXCEPT !.heap[ref] = Merged(@, [y \in {k} |-> v])]

\* d.pop(k, default) on the dict object ref: the heap after it
Pop(m, ref, k) == IF m.exc # "" THEN m ELSE [m EXCEPT !.heap[ref] = Without(@, {k})]

\* ------------------------------------------------------------- histograms
\* A histogram is known by its axes, each axis by an identifier of its
\* binning, and by whether it is unweighted.
Hist(axes, unweighted) == [axes |-> axes, unweighted |-> unweighted]

\* _flatten_2d_hist: one regular axis of size(axes[0]) * size(axes[1]) bins
\* (an axis identifier is its number of bins)
_flatten_2d_hist(h) == Hist(<<h.axes[1] * h.axes[2]>>, h.unweighted)
FlattenAll(hs) == [i \in 1..Len(hs) |-> _flatten_2d_hist(hs[i])]

\* hist[:, ::bh.sum] and hist[::bh.sum, :]
Projection(h, i) == Hist(<<h.axes[i]>>, h.unweighted)

\* sum(components)
SumOf(hs) == Hist(hs[1].axes, FALSE)

\* _check_binning_consistency raises ValueError when a histogram of the list
\* has not the binning of the first
Consistent(hs) == \A i \in 1..Len(hs) : hs[i].axes = hs[1].axes
_check_binning_consistency(m, hs) ==
  IF m.exc # "" THEN m
  ELSE IF Consistent(hs)
    THEN [m EXCEPT !.tr = Append(@, Event("_check_binning_consistency", "", hs, <<>>,
                                          EmptyDict))]
  ELSE [m EXCEPT !.tr = Append(@, Event("_check_binning_consistency", "", hs, <<>>,
                                        EmptyDict)),
                 !.exc = "ValueError",
                 !.msg = "The bins of the histograms must be equal."]

\* ---------------------------------------------------------------- plot_hist
\* hist is one histogram, <<"one", <<h>>>>, or a list, <<"list", hs>>
One(h) == <<"one", <<h>>>>
List(hs) == <<"list", hs>>

plot_hist(m, hist, ax, kwargs) ==
  IF hist[1] = "one"
    THEN Do(m, "ax.hist", ax, hist[2], <<>>, kwargs)
  ELSE Do(RaiseIf(_check_binning_consistency(m, hist[2]), Len(hist[2]) = 0,
                  "IndexError", "list index out of range"),
          "ax.hist", ax, hist[2], <<>>, kwargs)

\* ------------------------------------------------ figures and their axes
\* Figure and axes objects are known by name: "None", the caller's own, or
\* the ones a call creates.
AllNone(objs) == \A i \in 1..Len(objs) : objs[i] = "None"
\* some of the figure and axes arguments are None
SomeNoneNeverRefused(objs) == FALSE
SomeNone(objs) == \E i \in 1..Len(objs) : objs[i] = "None"

\* plt.subplots(...): a new figure with its axes
Subplots(m, fig) == Call(m, "plt.subplots", fig)

create_comparison_figure(m) ==
  Return(DoAll(Subplots(m, "new_fig"),
               <<On("fig.subplots_adjust", "new_fig"),
                 On("ax.xaxis.set_ticklabels", "new_ax_main")>>),
         <<"new_fig", "new_ax_main", "new_ax_comparison">>)

\* `if fig is None and ax is None ...: <create> / elif fig is None or ...:
\* raise ValueError(msg)`, the figure created by plt.subplots or by
\* create_comparison_figure
FigureArguments(m, given, with_comparison, msg) ==
  IF AllNone(given)
    THEN IF with_comparison THEN create_comparison_figure(m) ELSE Subplots(m, "new_fig")
  ELSE RaiseIf(m, SomeNone(given), "ValueError", msg)

\* ------------------------------------------------------------- plot_2d_hist
\* pcolormesh_kwargs and colorbar_kwargs name dict objects of the heap
plot_2d_hist(m, hist, fig, ax, ax_colorbar, pcolormesh_kwargs, colorbar_kwargs, square_ax) ==
  IF m.exc # "" THEN m
  ELSE
    LET given == <<fig, ax, ax_colorbar>>
        used == IF AllNone(given) THEN <<"new_fig", "new_ax", "new_ax_colorbar">> ELSE given
        m1 == SetDefault(m, pcolormesh_kwargs, "edgecolors", "face")
        m2 == FigureArguments(m1, given, FALSE,
                              "Need to provid fig, ax and ax_colorbar (or None of them).")
        m3 == DoAll(m2, When(square_ax, <<On("ax.set_box_aspect", used[2]),
                                          On("fig.subplots_adjust", used[1])>>))
        m4 == DoKw(m3, "ax.pcolormesh", used[2], <<hist>>, <<>>, pcolormesh_kwargs)
        m5 == DoKw(m4, "ax.get_figure().colorbar", used[2], <<>>, <<used[3]>>,
                   colorbar_kwargs)
    IN Return(m5, used)

\* ------------------------------------------- plot_2d_hist_with_projections
\* plot_hist(hist, ax=ax, **plot_hist_kwargs, **extra), plot_hist_kwargs a dict
\* object of the heap
PlotProjection(m, hist, ax, plot_hist_kwargs, extra) ==
  plot_hist(m, One(hist), ax, Merged(m.heap[plot_hist_kwargs], extra))

plot_2d_hist_with_projections(m, hist, colorbar_label, pcolormesh_kwargs, colorbar_kwargs, plot_hist_kwargs) ==
  IF m.exc # "" THEN m
  ELSE
    LET m1 == SetDefault(m, colorbar_kwargs, "label", colorbar_label)
        m2 == SetDefault(m1, plot_hist_kwargs, "histtype", "stepfilled")
        m5 == DoAll(Subplots(m2, "new_fig"),
                    <<On("axs.remove", "new_fig"), On("fig.add_subplot", "new_fig")>>)
        m6 == plot_2d_hist(m5, hist, "new_fig", "ax_2d", "ax_colorbar",
                           pcolormesh_kwargs, colorbar_kwargs, TRUE)
        m7 == PlotProjection(m6, Projection(hist, 1), "ax_x_projection", plot_hist_kwargs,
                             EmptyDict)
        m8 == PlotProjection(m7, Projection(hist, 2), "ax_y_projection", plot_hist_kwargs,
                             [orientation |-> "horizontal"])
        m9 == DoAll(m8, <<On("ax.xaxis.set_ticklabels", "ax_x_projection"),
                          On("ax.yaxis.set_ticklabels", "ax_y_projection"),
                          On("ax.set_xlim", "ax_2d"), On("ax.set_xlim", "ax_x_projection"),
                          On("ax.set_ylim", "ax_2d"), On("ax.set_ylim", "ax_y_projection"),
                          On("ax.set_xlabel", "ax_2d"), On("ax.set_ylabel", "ax_2d"),
                          On("ax.set_ylabel", "ax_x_projection"),
                          On("ax.set_xlabel", "ax_y_projection"),
                          On("fig.subplots_adjust", "new_fig"),
                          On("fig.align_ylabels", "new_fig")>>)
    IN Return(m9, <<"new_fig", "ax_2d", "ax_x_projection", "ax_y_projection", "ax_colorbar">>)

\* ---------------------------------------------------------- plot_error_hist
UncertaintyTypes == {"symmetrical", "asymmetrical"}

\* the error bars, always those of "symmetrical"
PlotErrorHistSymmetrical(m, hist, ax, uncertainty_type, kwargs) ==
  Do(m, "ax.errorbar", ax, <<hist>>, <<>>,
     Merged([yerr |-> "np.sqrt(hist.variances())", fmt |-> "."], kwargs))

\* kwargs is the dict of the keyword arguments of the call
plot_error_hist(m, hist, ax, uncertainty_type, kwargs) ==
  IF m.exc # "" THEN m
  ELSE
    LET m1 == RaiseIf(m, uncertainty_type \notin UncertaintyTypes,
                      "ValueError", "Uncertainty type not valid.")
        m2 == RaiseIf(m1, uncertainty_type = "asymmetrical" /\ ~ hist.unweighted,
                      "ValueError",
                      "Asymmetrical uncertainties need an unweighted histogram.")
        k1 == IF "yerr" \in DOMAIN kwargs THEN kwargs
              ELSE Merged(kwargs, [yerr |-> IF uncertainty_type = "symmetrical"
                                              THEN "np.sqrt(hist.variances())"
                                              ELSE "[uncertainties_low, uncertainties_high]"])
        k2 == IF "fmt" \in DOMAIN k1 THEN k1 ELSE Merged(k1, [fmt |-> "."])
    IN Do(m2, "ax.errorbar", ax, <<hist>>, <<>>, k2)

\* --------------------------------------------------- plot_hist_uncertainties
plot_hist_uncertainties(m, hist, ax, kwargs) ==
  Do(m, "ax.bar", ax, <<hist>>, <<>>,
     Merged([edgecolor |-> "dimgrey", hatch |-> "////", fill |-> "False", lw |-> "0"],
            kwargs))

\* ---------------------------------------------------------- plot_comparison
\* _get_math_text: the text between the first two $ of a label, or the label
_get_math_text(text) ==
  CASE text = "$N_{obs}$" -> "N_{obs}"
    [] text = "$h_1$ (a.u.)" -> "h_1"
    [] OTHER -> text

Comparisons == {"ratio", "pull", "difference", "relative_difference", "efficiency"}

\* np.seterr(divide=d, invalid=d)
seterr(m, d) ==
  Do(IF m.exc # "" THEN m ELSE [m EXCEPT !.err = [divide |-> d, invalid |-> d]],
     "np.seterr", "", <<>>, <<d>>, EmptyDict)

\* the parameters plot_comparison names; its other keyword arguments are
\* plot_hist_kwargs
ComparisonParams ==
  {"xlabel", "h1_label", "h2_label", "comparison", "comparison_ylabel",
   "comparison_ylim", "ratio_uncertainty", "hist_1_uncertainty"}

\* the lower and upper uncertainties get_comparison returns differ
Asymmetric(comparison, hist_1_uncertainty) ==
  hist_1_uncertainty = "asymmetrical" \/ comparison = "efficiency"

\* the message of the ValueError get_comparison raises, "" when it raises none
ComparisonError(hist_1, comparison, hist_1_uncertainty) ==
  IF hist_1_uncertainty \notin UncertaintyTypes THEN "Uncertainty type not valid."
  ELSE IF hist_1_uncertainty = "asymmetrical" /\ ~ hist_1.unweighted
    THEN "Asymmetrical uncertainties need an unweighted histogram."
  ELSE IF comparison \notin Comparisons THEN "comparison not available"
  ELSE ""

get_comparison(m, hist_1, hist_2, comparison, ratio_uncertainty, hist_1_uncertainty) ==
  RaiseIf(Do(m, "get_comparison", "", <<hist_1, hist_2>>,
             <<comparison, ratio_uncertainty, hist_1_uncertainty>>, EmptyDict),
          ComparisonError(hist_1, comparison, hist_1_uncertainty) # "",
          "ValueError", ComparisonError(hist_1, comparison, hist_1_uncertainty))

\* `if comparison == "pull": plot_hist(...) else: plot_error_hist(...)`
PlotComparisonValues(m, comparison, hist_comparison, ax, plot_hist_kwargs) ==
  IF comparison = "pull"
    THEN plot_hist(m, One(hist_comparison), ax,
                   Merged([histtype |-> "stepfilled", color |-> "darkgrey"],
                          plot_hist_kwargs))
    ELSE plot_error_hist(m, hist_comparison, ax, "symmetrical",
                         Merged([color |-> "black"], plot_hist_kwargs))

\* the label of the y axis of each comparison that has one
ComparisonLabel(comparison, h1_label, h2_label) ==
  CASE comparison = "relative_difference" ->
         <<"$\\frac{", h1_label, " - ", h2_label, "}{", h2_label, "}$">>
    [] comparison = "ratio" -> <<"$\\frac{", h1_label, "}{", h2_label, "}$">>
    [] comparison = "pull" ->
         <<"$\\frac{ ", h1_label, " - ", h2_label, " }{ \\sqrt{\\sigma^2_{", h1_label,
           "} + \\sigma^2_{", h2_label, "}} } $">>
    [] comparison = "difference" -> <<"$", h1_label, " - ", h2_label, "$">>
    [] OTHER -> <<>>

\* `if ratio_uncertainty == "split": np.seterr(divide="ignore", ...) ...
\* np.seterr(divide="warn", invalid="warn"); ax.bar(...)`
SplitUncertainty(m, split, hist_2, ax, comparison_ylim) ==
  IF split
    THEN Do(seterr(seterr(m, "ignore"), "warn"), "ax.bar", ax, <<hist_2>>,
            <<comparison_ylim>>,
            [edgecolor |-> "dimgrey", hatch |-> "////", fill |-> "False", lw |-> "0"])
    ELSE m

\* kw is the dict of the keyword arguments of the call
plot_comparison(m, hist_1, hist_2, ax, kw) ==
  IF m.exc # "" THEN m
  ELSE
    LET xlabel == Get(kw, "xlabel", "")
        h1_label == _get_math_text(Get(kw, "h1_label", "h1"))
        h2_label == _get_math_text(Get(kw, "h2_label", "h2"))
        comparison == Get(kw, "comparison", "ratio")
        comparison_ylabel == Get(kw, "comparison_ylabel", "None")
        ylim_given == Get(kw, "comparison_ylim", "None")
        ratio_uncertainty == Get(kw, "ratio_uncertainty", "uncorrelated")
        hist_1_uncertainty == Get(kw, "hist_1_uncertainty", "symmetrical")
        given_kwargs == Without(kw, ComparisonParams)
        plot_hist_kwargs ==
          IF Asymmetric(comparison, hist_1_uncertainty) /\ "yerr" \notin DOMAIN given_kwargs
            THEN Merged(given_kwargs, [yerr |-> "[lower_uncertainties, upper_uncertainties]"])
            ELSE given_kwargs
        hist_comparison == Hist(hist_2.axes, FALSE)
        comparison_ylim ==
          IF ylim_given # "None" THEN ylim_given
          ELSE CASE comparison = "relative_difference" -> "(-1.0, 1.0)"
                 [] comparison = "ratio" -> "(0.0, 2.0)"
                 [] comparison = "pull" -> "(-5.0, 5.0)"
                 [] OTHER -> "None"
        labelled == comparison \in {"relative_difference", "ratio", "pull", "difference"}
        m1 == _check_binning_consistency(m, <<hist_1, hist_2>>)
        m2 == get_comparison(m1, hist_1, hist_2, comparison, ratio_uncertainty,
                             hist_1_uncertainty)
        m3 == PlotComparisonValues(m2, comparison, hist_comparison, ax, plot_hist_kwargs)
        m4 == DoAll(m3, When(labelled,
                             <<Event("ax.axhline", ax, <<>>,
                                     <<IF comparison = "ratio" THEN "1" ELSE "0">>,
                                     EmptyDict),
                               Event("ax.set_ylabel", ax, <<>>,
                                     ComparisonLabel(comparison, h1_label, h2_label),
                                     EmptyDict)>>))
        m5 == SplitUncertainty(m4, comparison \in {"ratio", "relative_difference"}
                                     /\ ratio_uncertainty = "split",
                               hist_2, ax, comparison_ylim)
        m6 == DoAll(m5, <<Event("ax.set_xlim", ax, <<hist_1>>, <<>>, EmptyDict),
                          Event("ax.set_xlabel", ax, <<>>, <<xlabel>>, EmptyDict)>>
                        \o When(comparison_ylim # "None",
                                <<Event("ax.set_ylim", ax, <<>>, <<comparison_ylim>>,
                                        EmptyDict)>>)
                        \o When(comparison_ylabel # "None",
                                <<Event("ax.set_ylabel", ax, <<>>, <<comparison_ylabel>>,
                                        EmptyDict)>>))
    IN Return(m6, <<ax>>)

\* --------------------------------------------------------- compare_two_hist
compare_two_hist(m, hist_1, hist_2, fig, ax_main, ax_comparison, comparison_kwargs) ==
  IF m.exc # "" THEN m
  ELSE
    LET given == <<fig, ax_main, ax_comparison>>
        used == IF AllNone(given) THEN <<"new_fig", "new_ax_main", "new_ax_comparison">>
                ELSE given
        m1 == _check_binning_consistency(m, <<hist_1, hist_2>>)
        m2 == FigureArguments(m1, given, TRUE,
                              "Need to provid fig, ax_main and ax_comparison (or none of them).")
        m3 == plot_hist(m2, One(hist_1), used[2], [label |-> "h1", histtype |-> "step"])
        m4 == plot_hist(m3, One(hist_2), used[2], [label |-> "h2", histtype |-> "step"])
        m5 == DoAll(m4, <<On("ax.set_xlim", used[2]), On("ax.set_ylabel", used[2]),
                          On("ax.legend", used[2]),
                          On("ax.xaxis.set_ticklabels", used[2])>>)
        m6 == plot_comparison(m5, hist_1, hist_2, used[3],
                              Merged(comparison_kwargs,
                                     [xlabel |-> "None", h1_label |-> "h1", h2_label |-> "h2"]))
        m7 == Call(m6, "fig.align_ylabels", used[1])
    IN Return(m7, used)

\* --------------------------------------------------------------- plot_model
\* there is no model component at all
NoComponentsNeverRefused(components) == FALSE
NoComponents(components) == Len(components) = 0

\* `if len(components) > 0: plot_hist(components, ax=ax, ...)`
PlotComponents(m, components, ax, kwargs) ==
  IF Len(components) > 0 THEN plot_hist(m, List(components), ax, kwargs) ELSE m

\* sum_kwargs.pop("show", True), reached only with unstacked components
PopShowAlways(m, sum_kwargs, unstacked) == Pop(m, sum_kwargs, "show")
PopShow(m, sum_kwargs, unstacked) ==
  IF Len(unstacked) > 0 THEN Pop(m, sum_kwargs, "show") ELSE m

\* plot_hist(sum(components), ax=ax, histtype="step", **sum_kwargs) when there
\* are unstacked components and the popped "show" is true
DrawSum(m, sum_kwargs, components, unstacked, ax, show) ==
  IF Len(unstacked) > 0 /\ Truthy(show)
    THEN Do(RaiseIf(m, "histtype" \in DOMAIN m.heap[sum_kwargs],
                    "TypeError", "multiple values for histtype"),
            "ax.hist", ax, <<SumOf(components)>>, <<"sum(components)">>,
            Merged([histtype |-> "step"], m.heap[sum_kwargs]))
    ELSE m

\* `if sum_kwargs.pop("show", True): plot_hist(sum(components), ...)`
PlotSum(m, sum_kwargs, components, unstacked, ax) ==
  DrawSum(PopShow(m, sum_kwargs, unstacked), sum_kwargs, components, unstacked, ax,
          Get(m.heap[sum_kwargs], "show", "True"))

\* sum_kwargs names a dict object of the heap
plot_model(m, stacked_components, unstacked_components, sum_kwargs, flatten_2d_hist, fig, ax) ==
  IF m.exc # "" THEN m
  ELSE
    LET stacked == IF flatten_2d_hist THEN FlattenAll(stacked_components)
                   ELSE stacked_components
        unstacked == IF flatten_2d_hist THEN FlattenAll(unstacked_components)
                     ELSE unstacked_components
        components == stacked \o unstacked
        given == <<fig, ax>>
        used == IF AllNone(given) THEN <<"new_fig", "new_ax">> ELSE given
        m1 == RaiseIf(m, NoComponents(components), "ValueError",
                      "Need to provide at least one model component.")
        m2 == _check_binning_consistency(m1, components)
        m3 == FigureArguments(m2, given, FALSE, "Need to provid both fig and ax (or none).")
        m4 == PlotComponents(m3, stacked, used[2],
                             [stacked |-> "True", edgecolor |-> "black",
                              histtype |-> "stepfilled", linewidth |-> "0.5",
                              color |-> "None", label |-> "None"])
        m5 == PlotComponents(m4, unstacked, used[2],
                             [color |-> "None", label |-> "None", stacked |-> "False",
                              histtype |-> "step"])
        m6 == PlotSum(m5, sum_kwargs, components, unstacked, used[2])
        m7 == RaiseIf(m6, Len(components) = 0, "IndexError", "list index out of range")
        m8 == DoAll(m7, <<On("ax.set_xlim", used[2]), On("ax.set_xlabel", used[2]),
                          On("ax.set_ylabel", used[2]),
                          On("set_fitting_ylabel_fontsize", used[2]),
                          On("ax.legend", used[2])>>)
    IN Return(m8, used)

\* ------------------------------------------------------- compare_data_model
\* the histograms whose binning compare_data_model checks
CheckedWithData(model_components, data_hist) == model_components \o <<data_hist>>

\* `if model_uncertainty: plot_hist_uncertainties(model_hist, ax=ax_main, ...)`
PlotModelUncertainty(m, model_uncertainty, model_hist, ax) ==
  IF model_uncertainty
    THEN plot_hist_uncertainties(m, model_hist, ax, [label |-> "Model stat. unc."])
    ELSE m

\* compare_data_model once the model is plotted: the data, the uncertainty of
\* the model, the legend and the comparison; kw is comparison_kwargs with its
\* defaults
PlotDataAndComparison(m, data_hist, model_hist, model_uncertainty, used, kw) ==
  IF m.exc # "" THEN m
  ELSE
    LET data_uncertainty_type == IF data_hist.unweighted THEN "asymmetrical"
                                 ELSE "symmetrical"
        k2 == IF ~ model_uncertainty /\ kw["comparison"] = "pull"
                 /\ "comparison_ylabel" \notin DOMAIN kw
                THEN Merged(kw, [comparison_ylabel |-> "pull without model uncertainty"])
                ELSE kw
        m5 == plot_error_hist(m, data_hist, used[2], data_uncertainty_type,
                              [color |-> "black", label |-> "Data"])
        m6 == Call(m5, "ax.xaxis.set_ticklabels", used[2])
        m7 == PlotModelUncertainty(m6, model_uncertainty, model_hist, used[2])
        m8 == Call(m7, "ax.legend", used[2])
        m9 == plot_comparison(RaiseIf(m8, "hist_1_uncertainty" \in DOMAIN k2, "TypeError",
                                      "multiple values for hist_1_uncertainty"),
                              data_hist, model_hist, used[3],
                              Merged(k2, [xlabel |-> "None",
                                          hist_1_uncertainty |-> data_uncertainty_type]))
    IN DoAll(m9, <<On("set_fitting_ylabel_fontsize", used[2]),
                   On("label.set_size", used[3]),
                   On("fig.align_ylabels", used[1])>>)

\* model_sum_kwargs names a dict object of the heap; comparison_kwargs is the
\* dict of the other keyword arguments of the call
compare_data_model(m, data_hist_given, stacked_components, unstacked_components, model_sum_kwargs, flatten_2d_hist, model_uncertainty, fig, ax_main, ax_comparison, comparison_kwargs) ==
  IF m.exc # "" THEN m
  ELSE
    LET k1 == Merged([h1_label |-> "Data", h2_label |-> "Pred.", comparison |-> "ratio",
                      ratio_uncertainty |-> "split"], comparison_kwargs)
        data_hist == IF flatten_2d_hist THEN _flatten_2d_hist(data_hist_given)
                     ELSE data_hist_given
        stacked == IF flatten_2d_hist THEN FlattenAll(stacked_components)
                   ELSE stacked_components
        unstacked == IF flatten_2d_hist THEN FlattenAll(unstacked_components)
                     ELSE unstacked_components
        model_components == stacked \o unstacked
        given == <<fig, ax_main, ax_comparison>>
        used == IF AllNone(given) THEN <<"new_fig", "new_ax_main", "new_ax_comparison">>
                ELSE given
        model_hist == IF Len(model_components) = 0 THEN Hist(<<>>, FALSE)
                      ELSE SumOf(model_components)
        m1 == RaiseIf(m, NoComponents(model_components), "ValueError",
                      "Need to provide at least one model component.")
        m2 == _check_binning_consistency(m1, CheckedWithData(model_components, data_hist))
        m3 == FigureArguments(m2, given, TRUE,
                              "Need to provid fig, ax_main and ax_comparison (or none of them).")
        m4 == plot_model(m3, stacked, unstacked, model_sum_kwargs, FALSE, used[1], used[2])
        m10 == PlotDataAndComparison(m4, data_hist, model_hist, model_uncertainty, used, k1)
    IN Return(m10, used)

\* ------------------------------------------------------------------ plot_mc
\* the dict written in the call of plot_model and of compare_data_model
McSumKwargs == [show |-> "True", label |-> "Sum(MC)", color |-> "navy"]
WithLiteral(m, d) == IF m.exc # "" THEN m ELSE [m EXCEPT !.heap["literal"] = d]
\* the axes a call returned
ReturnedAxes(m) == IF m.exc = "" THEN m.ret[2] ELSE "None"
\* plot_hist(signal_hist, ax=ax, stacked=False, color=..., label=..., histtype="step")
PlotSignal(m, signal_hist, flatten_2d_hist) ==
  IF m.exc # "" \/ Len(signal_hist) = 0 THEN m
  ELSE plot_hist(m, One(IF flatten_2d_hist THEN _flatten_2d_hist(signal_hist[1])
                        ELSE signal_hist[1]),
                 ReturnedAxes(m),
                 [stacked |-> "False", color |-> "red", label |-> "Signal",
                  histtype |-> "step"])

\* signal_hist is <<>> for None, or <<h>>
plot_mc(m, mc_hist_list, signal_hist, fig, ax, flatten_2d_hist, stacked) ==
  IF m.exc # "" THEN m
  ELSE
    LET m1 == _check_binning_consistency(m, mc_hist_list \o signal_hist)
        m2 == plot_model(WithLiteral(m1, McSumKwargs),
                         IF stacked THEN mc_hist_list ELSE <<>>,
                         IF stacked THEN <<>> ELSE mc_hist_list,
                         "literal", flatten_2d_hist, fig, ax)
    IN PlotSignal(m2, signal_hist, flatten_2d_hist)

\* ---------------------------------------------------------- compare_data_mc
\* ax_main.legend(); return fig, ax_main, ax_comparison
LegendAndReturn(m) ==
  IF m.exc # "" THEN m ELSE Return(Call(m, "ax.legend", ReturnedAxes(m)), m.ret)

compare_data_mc(m, data_hist, mc_hist_list, signal_hist, flatten_2d_hist, stacked, mc_uncertainty, fig, ax_main, ax_comparison, comparison_kwargs) ==
  IF m.exc # "" THEN m
  ELSE
    LET m1 == _check_binning_consistency(m, mc_hist_list \o <<data_hist>> \o signal_hist)
        m2 == compare_data_model(WithLiteral(m1, McSumKwargs), data_hist,
                                 IF stacked THEN mc_hist_list ELSE <<>>,
                                 IF stacked THEN <<>> ELSE mc_hist_list,
                                 "literal", flatten_2d_hist, mc_uncertainty,
                                 fig, ax_main, ax_comparison, comparison_kwargs)
    IN LegendAndReturn(PlotSignal(m2, signal_hist, flatten_2d_hist))

\* ------------------------------------------------------------------ state
\* numpy's default error settings
DefaultErr == [divide |-> "warn", invalid |-> "warn"]

NoAxis == [out |-> "", msg |-> "", axis |-> <<>>, warn |-> FALSE]
NoHist == [out |-> "", msg |-> "", axis |-> <<>>, storage |-> "",
           inside |-> 0, total |-> 0, warn_range |-> FALSE, warn_coverage |-> FALSE]

\* the arguments of one create_axis call, not yet made
InitAxis ==
  /\ \E data \in SeqsUpTo(Floats, MaxLen), bins \in BinsArgs, range \in RangeArgs :
       last = [fn |-> "create_axis", done |-> FALSE,
               args |-> [data |-> data, bins |-> bins, range |-> range],
               res |-> NoAxis]
  /\ heap = <<>>
  /\ made = <<>>
  /\ np_err = DefaultErr

CreateAxis ==
  /\ last.fn = "create_axis"
  /\ ~ last.done
  /\ last' = [last EXCEPT !.done = TRUE,
                          !.res = create_axis(last.args.data, last.args.bins,
                                              last.args.range)]
  /\ UNCHANGED <<heap, made, np_err>>

\* the arguments of one make_hist call, not yet made
InitHist ==
  /\ \E data \in DataRuns, bins \in HistBins, range \in HistRanges :
       \E weights \in WeightsFor(data) :
         last = [fn |-> "make_hist", done |-> FALSE,
                 args |-> [data |-> data, bins |-> bins, range |-> range,
                           weights |-> weights],
                 res |-> NoHist]
  /\ heap = <<>>
  /\ made = <<>>
  /\ np_err = DefaultErr

MakeHist ==
  /\ last.fn = "make_hist"
  /\ ~ last.done
  /\ last' = [last EXCEPT !.done = TRUE,
                          !.res = make_hist(last.args.data, last.args.bins,
                                            last.args.range, last.args.weights)]
  /\ UNCHANGED <<heap, made, np_err>>

\* the arguments of one make_2d_hist call, not yet made
No2dHist == Error2d("", <<>>)
Init2d ==
  /\ \E data \in Data2d, bins \in Bins2d, range \in Ranges2d, weights \in Weights2d :
       last = [fn |-> "make_2d_hist", done |-> FALSE,
               args |-> [data |-> data, bins |-> bins, range |-> range,
                         weights |-> weights],
               res |-> No2dHist]
  /\ heap = <<>>
  /\ made = <<>>
  /\ np_err = DefaultErr

Make2dHist ==
  /\ last.fn = "make_2d_hist"
  /\ ~ last.done
  /\ last' = [last EXCEPT !.done = TRUE,
                          !.res = make_2d_hist(last.args.data, last.args.bins,
                                               last.args.range, last.args.weights)]
  /\ UNCHANGED <<heap, made, np_err>>

NextAxis == CreateAxis
SpecAxis == InitAxis /\ [][NextAxis]_vars

NextHist == MakeHist
SpecHist == InitHist /\ [][NextHist]_vars

Next2d == Make2dHist
Spec2d == Init2d /\ [][Next2d]_vars

\* ------------------------------------------------------ plotting: inputs
NoCall == [fn |-> "none"]

\* one-dimensional histograms, by the binning of their axis
Hists1D == {Hist(<<n>>, TRUE) : n \in {1, MaxBins}}
\* two-dimensional histograms
Hists2D == {Hist(<<1, MaxBins>>, TRUE), Hist(<<MaxBins, 1>>, TRUE)}
\* data histograms, unweighted or weighted
DataOf(H) == {Hist(h.axes, u) : h \in H, u \in BOOLEAN}
\* the histograms of a call: one-dimensional, or two-dimensional to flatten
HistsFor == [flatten_2d_hist \in BOOLEAN |-> IF flatten_2d_hist THEN Hists2D ELSE Hists1D]
\* one and the same one-dimensional histogram
SameHist == [flatten_2d_hist \in BOOLEAN |-> {Hist(<<1>>, TRUE)}]
ListsOf(H) == SeqsUpTo(H, MaxComps)
\* signal_hist: None or a histogram
SignalsOf(H) == {<<>>} \cup {<<h>> : h \in H}

\* the figure and axes arguments: None or the caller's objects
Figs2 == {"None", "fig"} \X {"None", "ax"}
Figs3 == {"None", "fig"} \X {"None", "ax_main"} \X {"None", "ax_comparison"}
AllOrNone(F) == {f \in F : AllNone(f) \/ ~ SomeNone(f)}

\* A dict argument is <<ref, content>>: the object of the heap that is passed,
\* and the content of the dict when it is written as a literal in the call.
Omitted(default) == <<default, EmptyDict>>
Literal(d) == <<"literal", d>>
CallerDict == <<"caller", EmptyDict>>

\* the dicts a caller passes as sum_kwargs
SumDicts == {EmptyDict, [show |-> "False"], [show |-> "True", color |-> "red"]}
SumArgs(default) == {Omitted(default), CallerDict} \cup {Literal(d) : d \in SumDicts}

ColorbarLabels == {"None", "A", "B"}
ColorbarArgs(default) == {Omitted(default), Literal(EmptyDict), Literal([label |-> "C"])}

ErrSettings == {"ignore", "warn", "raise"}

\* the keyword arguments of a comparison: none, or which comparison and how
\* the uncertainty of a ratio is shown
ComparisonKwargs ==
  {EmptyDict} \cup {[comparison |-> c, ratio_uncertainty |-> r] :
                      c \in Comparisons, r \in {"uncorrelated", "split"}}

\* the keyword arguments of a call: any of those of d
DictsOver(d) == {[k \in S |-> d[k]] : S \in SUBSET DOMAIN d}

\* ----------------------------------------------------- plotting: the calls
\* The module is loaded and the caller has built its dict.
InitPlot(CallerDicts, Errs) ==
  /\ last = NoCall
  /\ made \in CallerDicts
  /\ heap = [DefaultDicts EXCEPT !.caller = made]
  /\ np_err \in [divide : Errs, invalid : Errs]

\* the state in which a call starts: the literal dict of the call is built
Enter(dictarg) ==
  Start(IF dictarg[1] = "literal" THEN [heap EXCEPT !.literal = dictarg[2]] ELSE heap,
        np_err)

\* the call is over: what it did is recorded (with the dict objects and numpy's
\* error settings as the call found them, and the dict objects as it left
\* them), what it changed stays changed, and the literal dict of the call is
\* gone
Finish(fn, args, m) ==
  \E x \in {m} :
    /\ last' = [fn |-> fn, args |-> args, tr |-> x.tr, exc |-> x.exc, msg |-> x.msg,
                ret |-> x.ret, entry |-> [heap |-> heap, err |-> np_err],
                dicts |-> x.heap]
    /\ heap' = [x.heap EXCEPT !.literal = EmptyDict]
    /\ np_err' = x.err
    /\ UNCHANGED made

\* the caller goes on to its next statement
Discard ==
  /\ last # NoCall
  /\ last' = NoCall
  /\ UNCHANGED <<heap, made, np_err>>

PlotHist(Lists) ==
  /\ last = NoCall
  /\ \E hist \in Lists :
       Finish("plot_hist", [hists |-> hist, figs |-> <<"ax">>],
              plot_hist(Start(heap, np_err), List(hist), "ax", EmptyDict))

PlotErrorHist(H, Types, Kws) ==
  /\ last = NoCall
  /\ \E hist \in DataOf(H), uncertainty_type \in Types, kw \in Kws :
       Finish("plot_error_hist",
              [hists |-> <<hist>>, figs |-> <<"ax">>,
               uncertainty_type |-> uncertainty_type, kw |-> kw],
              plot_error_hist(Start(heap, np_err), hist, "ax", uncertainty_type, kw))

Plot2dHist(Figs, CbArgs) ==
  /\ last = NoCall
  /\ \E hist \in Hists2D, f \in Figs, cb \in CbArgs, square_ax \in BOOLEAN :
       Finish("plot_2d_hist",
              [hists |-> <<hist>>, figs |-> f, colorbar_kwargs |-> cb,
               square_ax |-> square_ax],
              plot_2d_hist(Enter(cb), hist, f[1], f[2], f[3], "p2d_pcolormesh_kwargs",
                           cb[1], square_ax))

Plot2dHistWithProjections(Labels, CbArgs) ==
  /\ last = NoCall
  /\ \E hist \in Hists2D, colorbar_label \in Labels, cb \in CbArgs :
       Finish("plot_2d_hist_with_projections",
              [hists |-> <<hist>>, colorbar_label |-> colorbar_label,
               colorbar_kwargs |-> cb],
              plot_2d_hist_with_projections(Enter(cb), hist, colorbar_label,
                                            "proj_pcolormesh_kwargs", cb[1],
                                            "proj_plot_hist_kwargs"))

PlotComparison(H, Kws) ==
  /\ last = NoCall
  /\ \E hist_1 \in DataOf(H), hist_2 \in H, kw \in Kws :
       Finish("plot_comparison",
              [hists |-> <<hist_1, hist_2>>, figs |-> <<"ax">>, kw |-> kw],
              plot_comparison(Start(heap, np_err), hist_1, hist_2, "ax", kw))

CompareTwoHist(H, Figs, Kws) ==
  /\ last = NoCall
  /\ \E hist_1 \in H, hist_2 \in H, f \in Figs, kw \in Kws :
       Finish("compare_two_hist",
              [hists |-> <<hist_1, hist_2>>, figs |-> f, kw |-> kw],
              compare_two_hist(Start(heap, np_err), hist_1, hist_2, f[1], f[2], f[3], kw))

PlotModel(H, Flatten, Figs, Sums) ==
  /\ last = NoCall
  /\ \E flatten_2d_hist \in Flatten, f \in Figs, sum_kwargs \in Sums :
       \E stacked \in ListsOf(H[flatten_2d_hist]),
          unstacked \in ListsOf(H[flatten_2d_hist]) :
         Finish("plot_model",
                [hists |-> stacked \o unstacked, stacked |-> stacked,
                 unstacked |-> unstacked, sum_kwargs |-> sum_kwargs,
                 flatten_2d_hist |-> flatten_2d_hist, figs |-> f],
                plot_model(Enter(sum_kwargs), stacked, unstacked, sum_kwargs[1],
                           flatten_2d_hist, f[1], f[2]))

CompareDataModel(H, Flatten, Figs, Sums, Kws, Uncertainties) ==
  /\ last = NoCall
  /\ \E flatten_2d_hist \in Flatten, f \in Figs, sum_kwargs \in Sums, kw \in Kws,
        model_uncertainty \in Uncertainties :
       \E stacked \in ListsOf(H[flatten_2d_hist]),
          unstacked \in ListsOf(H[flatten_2d_hist]),
          data_hist \in DataOf(H[flatten_2d_hist]) :
         Finish("compare_data_model",
                [hists |-> stacked \o unstacked \o <<data_hist>>, stacked |-> stacked,
                 unstacked |-> unstacked, sum_kwargs |-> sum_kwargs,
                 flatten_2d_hist |-> flatten_2d_hist, figs |-> f, kw |-> kw,
                 model_uncertainty |-> model_uncertainty],
                compare_data_model(Enter(sum_kwargs), data_hist, stacked, unstacked,
                                   sum_kwargs[1], flatten_2d_hist, model_uncertainty,
                                   f[1], f[2], f[3], kw))

PlotMc(H, Flatten, Figs) ==
  /\ last = NoCall
  /\ \E flatten_2d_hist \in Flatten, f \in Figs, stacked \in BOOLEAN :
       \E mc_hist_list \in ListsOf(H[flatten_2d_hist]),
          signal_hist \in SignalsOf(H[flatten_2d_hist]) :
         Finish("plot_mc",
                [hists |-> mc_hist_list \o signal_hist,
                 flatten_2d_hist |-> flatten_2d_hist, figs |-> f, stacked |-> stacked],
                plot_mc(Start(heap, np_err), mc_hist_list, signal_hist, f[1], f[2],
                        flatten_2d_hist, stacked))

CompareDataMc(H, Flatten, Figs, Kws) ==
  /\ last = NoCall
  /\ \E flatten_2d_hist \in Flatten, f \in Figs, stacked \in BOOLEAN, kw \in Kws :
       \E mc_hist_list \in ListsOf(H[flatten_2d_hist]),
          signal_hist \in SignalsOf(H[flatten_2d_hist]),
          data_hist \in DataOf(H[flatten_2d_hist]) :
         Finish("compare_data_mc",
                [hists |-> mc_hist_list \o <<data_hist>> \o signal_hist,
                 flatten_2d_hist |-> flatten_2d_hist, figs |-> f, stacked |-> stacked,
                 kw |-> kw],
                compare_data_mc(Start(heap, np_err), data_hist, mc_hist_list, signal_hist,
                                flatten_2d_hist, stacked, TRUE, f[1], f[2], f[3], kw))

\* ------------------------------------------------------- specifications
NoFigs2 == {<<"None", "None">>}
NoFigs3 == {<<"None", "None", "None">>}

\* the figure and axes arguments, in every combination of None and given
InitFig == InitPlot({EmptyDict}, {"warn"})
NextFig ==
  \/ Plot2dHist(Figs3, {Omitted("p2d_colorbar_kwargs")})
  \/ CompareTwoHist(Hists1D, Figs3, {EmptyDict})
  \/ PlotModel(HistsFor, {FALSE}, Figs2, {Omitted("plot_model_sum_kwargs")})
  \/ CompareDataModel(HistsFor, {FALSE}, Figs3, {Omitted("cdm_model_sum_kwargs")},
                      {EmptyDict}, BOOLEAN)
  \/ Discard
SpecFig == InitFig /\ [][NextFig]_vars

\* the two-dimensional plots, with and without colorbar_kwargs
InitColorbar == InitPlot({EmptyDict}, {"warn"})
NextColorbar ==
  \/ Plot2dHist(NoFigs3, ColorbarArgs("p2d_colorbar_kwargs"))
  \/ Plot2dHistWithProjections(ColorbarLabels, ColorbarArgs("proj_colorbar_kwargs"))
  \/ Discard
SpecColorbar == InitColorbar /\ [][NextColorbar]_vars

\* the model plots, with sum_kwargs omitted, written in the call, or a dict of
\* the caller
InitSum == InitPlot(SumDicts, {"warn"})
NextSum ==
  \/ PlotModel(SameHist, {FALSE}, NoFigs2, SumArgs("plot_model_sum_kwargs"))
  \/ CompareDataModel(SameHist, {FALSE}, NoFigs3, SumArgs("cdm_model_sum_kwargs"),
                      {EmptyDict}, {FALSE})
  \/ Discard
SpecSum == InitSum /\ [][NextSum]_vars

\* the comparisons, under every error setting of numpy
InitErr == InitPlot({EmptyDict}, ErrSettings)
NextErr ==
  \/ PlotComparison(Hists1D, ComparisonKwargs)
  \/ CompareTwoHist(Hists1D, NoFigs3, ComparisonKwargs)
  \/ Discard
SpecErr == InitErr /\ [][NextErr]_vars

\* the calls that take several histograms, of equal binning or not
InitBin == InitPlot({EmptyDict}, {"warn"})
NextBin ==
  \/ PlotHist(ListsOf(Hists1D))
  \/ PlotComparison(Hists1D, {EmptyDict})
  \/ CompareTwoHist(Hists1D, AllOrNone(Figs3), {EmptyDict})
  \/ PlotMc(HistsFor, BOOLEAN, AllOrNone(Figs2))
  \/ CompareDataMc(HistsFor, BOOLEAN, AllOrNone(Figs3), {EmptyDict})
  \/ PlotModel(HistsFor, BOOLEAN, AllOrNone(Figs2), {Omitted("plot_model_sum_kwargs")})
  \/ CompareDataModel(HistsFor, BOOLEAN, AllOrNone(Figs3),
                      {Omitted("cdm_model_sum_kwargs")}, {EmptyDict}, {TRUE})
  \/ Discard
SpecBin == InitBin /\ [][NextBin]_vars

\* the calls that take keyword arguments for the library or for
\* plot_comparison, with any of them given
InitKw == InitPlot({EmptyDict}, {"warn"})
NextKw ==
  \/ PlotErrorHist(Hists1D, UncertaintyTypes \cup {"poisson"},
                   DictsOver([yerr |-> "given", fmt |-> "o", color |-> "red"]))
  \/ PlotComparison(Hists1D,
                    {Merged(d, [comparison |-> c]) :
                       c \in Comparisons,
                       d \in DictsOver([comparison_ylim |-> "(0.5, 1.5)",
                                        comparison_ylabel |-> "y"])})
  \/ CompareDataModel(SameHist, {FALSE}, NoFigs3, {Omitted("cdm_model_sum_kwargs")},
                      DictsOver([comparison |-> "pull", ratio_uncertainty |-> "uncorrelated",
                                 h1_label |-> "Obs.", hist_1_uncertainty |-> "symmetrical"]),
                      BOOLEAN)
  \/ CompareDataMc(SameHist, {FALSE}, NoFigs3,
                   DictsOver([comparison |-> "pull", ratio_uncertainty |-> "uncorrelated",
                              h1_label |-> "Obs.", hist_1_uncertainty |-> "symmetrical"]))
  \/ Discard
SpecKw == InitKw /\ [][NextKw]_vars

\* ------------------------------------------------------- create_axis claims
AxisDone == last.fn = "create_axis" /\ last.done
IntBins == last.args.bins[1] = "int"
RangeGiven == last.args.range # NoRange
\* the limits can be resolved: min()/max() are not asked of empty data
Resolvable == ~ (UsesData(last.args.range) /\ Len(last.args.data) = 0)
ResMin == XMin(last.args.data, last.args.range)
ResMax == XMax(last.args.data, last.args.range)
BothFinite == isfinite(ResMin) /\ isfinite(ResMax)

\* C2, as stated: with an integer number of bins and a range, create_axis
\* raises ValueError unless the resolved maximum is larger than the resolved
\* minimum.
C2_RaisesUnlessMaxLarger ==
  (AxisDone /\ IntBins /\ RangeGiven /\ Resolvable /\ ~ Gt(ResMax, ResMin))
    => last.res.out = "ValueError"

\* C2, amended: with an integer number of bins and a range, create_axis raises
\* ValueError exactly when the resolved minimum is larger than the resolved
\* maximum (with the message "Max must be larger than min"), when a limit is
\* not finite, or when "min"/"max" is asked of empty data; equal finite limits
\* are accepted and the axis spans [min - 0.5, max + 0.5].
C2_RaisesWhenMinLarger ==
  (AxisDone /\ IntBins /\ RangeGiven) =>
    IF ~ Resolvable THEN last.res.out = "ValueError"
    ELSE /\ last.res.out = "ValueError" <=> (Gt(ResMin, ResMax) \/ ~ BothFinite)
         /\ last.res.msg = "Max must be larger than min" <=> Gt(ResMin, ResMax)
         /\ (BothFinite /\ ResMin = ResMax) =>
              last.res.axis = <<"Regular", last.args.bins[2],
                                2 * ResMin[2] - 1, 2 * ResMax[2] + 1>>

\* C2 witness: a range with equal finite limits was accepted
C2_EqualLimitsAccepted ==
  /\ AxisDone /\ IntBins /\ RangeGiven /\ Resolvable
  /\ BothFinite /\ ResMin = ResMax
  /\ last.res.out = "axis"

\* the range is invalid (limits in the wrong order) or not finite
BadRange == RangeGiven /\ Resolvable /\ (Gt(ResMin, ResMax) \/ ~ BothFinite)
\* the range detected from non-empty data is not finite
BadAutoRange ==
  /\ ~ RangeGiven
  /\ Len(last.args.data) > 0
  /\ ~ (isfinite(PyMin(last.args.data)) /\ isfinite(PyMax(last.args.data)))

HistDone == last.fn = "make_hist" /\ last.done
\* the number of data points, and of those filled outside the regular bins
NPoints == FilledSum(last.args.data, NoWeights, last.res.axis, TRUE, 1)
NOutside == NPoints - FilledSum(last.args.data, NoWeights, last.res.axis, FALSE, 1)

\* C4, as stated: make_hist warns of low coverage if and only if more than 1%
\* of the data points lie in the underflow and overflow bins, whatever the
\* weights, and returns the histogram either way.
C4_WarnsIffOverOnePercentOutside ==
  (HistDone /\ last.res.out = "hist") =>
    (last.res.warn_coverage <=> 100 * NOutside > NPoints)

\* ------------------------------------------------------ make_2d_hist claim
Elements(seq) == {seq[i] : i \in 1..Len(seq)}
Done2d == last.fn = "make_2d_hist" /\ last.done
\* data has not two components, or two of unequal lengths
BadShape ==
  IF Len(last.args.data) # 2 THEN TRUE
  ELSE Len(last.args.data[1]) # Len(last.args.data[2])
\* create_axis accepts the data, the bins and the range of dimension i
AxisAccepted(i) ==
  create_axis(last.args.data[i], last.args.bins[i], last.args.range[i]).out = "axis"

\* C11, as stated: make_2d_hist raises ValueError before any axis is created
\* when data has not two components of equal lengths, and otherwise returns
\* a 2D histogram with Weight storage.
C11_ReturnsUnlessBadShape ==
  Done2d =>
    IF BadShape THEN last.res.out = "ValueError" /\ last.res.tr = <<>>
    ELSE last.res.out = "hist" /\ last.res.storage = "Weight"

\* C11, amended: make_2d_hist raises ValueError("data should have two
\* components, x and y") when data has not two components and
\* ValueError("x and y must have the same length.") when its two components
\* have unequal lengths, before any axis or histogram is created; otherwise
\* it returns a histogram of two axes with Weight storage exactly when
\* create_axis accepts both dimensions, and raises the ValueError of
\* create_axis, with no histogram created, when it does not.
C11_RefusedBeforeAnyAxis ==
  Done2d =>
    IF Len(last.args.data) # 2
      THEN /\ last.res.out = "ValueError"
           /\ last.res.msg = "data should have two components, x and y"
           /\ last.res.tr = <<>>
    ELSE IF Len(last.args.data[1]) # Len(last.args.data[2])
      THEN /\ last.res.out = "ValueError"
           /\ last.res.msg = "x and y must have the same length."
           /\ last.res.tr = <<>>
    ELSE IF AxisAccepted(1) /\ AxisAccepted(2)
      THEN /\ last.res.out = "hist"
           /\ last.res.storage = "Weight"
           /\ Len(last.res.axes) = 2
    ELSE /\ last.res.out = "ValueError"
         /\ last.res.msg \in {"Autodetected range is not finite", "Range is not finite",
                               "Max must be larger than min", "arg is an empty sequence"}
         /\ "bh.Histogram" \notin Elements(last.res.tr)

\* C11, witness: two components of unequal lengths were refused before any
\* axis was created.
C11_UnequalLengthsRefused ==
  /\ Done2d
  /\ Len(last.args.data) = 2
  /\ Len(last.args.data[1]) # Len(last.args.data[2])
  /\ last.res.out = "ValueError"
  /\ last.res.tr = <<>>

\* ------------------------------------------------------------ plotting claims
\* the calls of the finished call on a figure or on axes, by their place
Drawn == {i \in 1..Len(last.tr) : last.tr[i].on # ""}
ObjectsUsed == {last.tr[i].on : i \in Drawn}
CreatesFigure == \E i \in 1..Len(last.tr) : last.tr[i].op = "plt.subplots"
NewObjects == {"new_fig", "new_ax", "new_ax_colorbar", "new_ax_main", "new_ax_comparison"}

FigureCall ==
  /\ last # NoCall
  /\ last.fn \in {"plot_2d_hist", "compare_two_hist", "compare_data_model", "plot_model"}
NoneGiven == \A i \in 1..Len(last.args.figs) : last.args.figs[i] = "None"
AllGiven == \A i \in 1..Len(last.args.figs) : last.args.figs[i] # "None"

\* C1: in plot_2d_hist, compare_two_hist, compare_data_model and plot_model, a
\* call with some but not all of the figure and axes arguments None raises
\* ValueError and touches no object; a call that returns with all of them None
\* has created a figure with plt.subplots, works on the new objects only and
\* returns them; a call that returns with all of them given creates no figure,
\* works on the given objects only and returns the very same objects.
C1_FigureArgumentsAllOrNone ==
  FigureCall =>
    /\ (~ NoneGiven /\ ~ AllGiven) => (last.exc = "ValueError" /\ ObjectsUsed = {})
    /\ (NoneGiven /\ last.exc = "") =>
         /\ CreatesFigure
         /\ Len(last.ret) = Len(last.args.figs)
         /\ Elements(last.ret) \subseteq NewObjects
         /\ ObjectsUsed \subseteq NewObjects
    /\ (AllGiven /\ last.exc = "") =>
         /\ ~ CreatesFigure
         /\ last.ret = last.args.figs
         /\ ObjectsUsed \subseteq Elements(last.args.figs)

\* C1, witness: compare_data_model was given its figure and both axes, drew on
\* them and returned them.
C1_GivenObjectsReturned ==
  /\ FigureCall
  /\ last.fn = "compare_data_model"
  /\ AllGiven
  /\ last.exc = ""
  /\ last.ret = last.args.figs
  /\ ObjectsUsed = Elements(last.args.figs)

\* ------------------------------------------------------------------ C5
ColorbarDrawn == {i \in 1..Len(last.tr) : last.tr[i].op = "ax.get_figure().colorbar"}

\* C5, as stated: whatever calls were made before, a call of
\* plot_2d_hist_with_projections with colorbar_label=L and no colorbar_kwargs
\* that returns has drawn the colorbar, with the label L.
C5_ColorbarLabelOfTheCall ==
  (/\ last # NoCall
   /\ last.fn = "plot_2d_hist_with_projections"
   /\ last.args.colorbar_kwargs = Omitted("proj_colorbar_kwargs")
   /\ last.exc = "")
    => /\ ColorbarDrawn # {}
       /\ \A i \in ColorbarDrawn :
            /\ "label" \in DOMAIN last.tr[i].kw
            /\ last.tr[i].kw["label"] = last.args.colorbar_label

\* ------------------------------------------------------------------ C6
\* C6, as stated: after a call of plot_comparison with ratio_uncertainty="split"
\* and the comparison "ratio" or "relative_difference", numpy's error settings
\* are what they were when the call started.
C6_ErrorSettingsRestored ==
  (/\ last # NoCall
   /\ last.fn = "plot_comparison"
   /\ last.exc = ""
   /\ Get(last.args.kw, "ratio_uncertainty", "uncorrelated") = "split"
   /\ Get(last.args.kw, "comparison", "ratio") \in {"ratio", "relative_difference"})
    => np_err = last.entry.err

\* ------------------------------------------------------------- C7 and C8
\* the dict a call was given as sum_kwargs, as its caller wrote it
GivenSumKwargs ==
  CASE last.args.sum_kwargs[1] = "literal" -> last.args.sum_kwargs[2]
    [] last.args.sum_kwargs[1] = "caller" -> made
    [] OTHER -> DefaultDicts[last.args.sum_kwargs[1]]
SumsDrawn ==
  Cardinality({i \in 1..Len(last.tr) : last.tr[i].val = <<"sum(components)">>})

\* C7, as stated: a call of plot_model or compare_data_model with an unstacked
\* component that returns has drawn no sum histogram when the dict it was
\* given has "show": False, and exactly one otherwise, whatever calls were
\* made before and also when the dict is one the caller passes again.
C7_ShowDecidesTheSum ==
  (/\ last # NoCall
   /\ last.fn \in {"plot_model", "compare_data_model"}
   /\ last.args.unstacked # <<>>
   /\ last.exc = "")
    => IF Get(GivenSumKwargs, "show", "True") = "False" THEN SumsDrawn = 0
       ELSE SumsDrawn = 1

StackedOnlyCall ==
  last # NoCall /\ last.fn = "plot_model" /\ last.args.unstacked = <<>>

\* C8: a call of plot_model without unstacked components draws no sum
\* histogram, issues the calls it issues when sum_kwargs is omitted in a
\* process that made no call before, and leaves every dict, the one given as
\* sum_kwargs included, as the call found it.
C8_SumKwargsUnusedWhenAllStacked ==
  StackedOnlyCall =>
    /\ SumsDrawn = 0
    /\ last.tr = plot_model(Start(DefaultDicts, DefaultErr), last.args.stacked, <<>>,
                            "plot_model_sum_kwargs", last.args.flatten_2d_hist,
                            last.args.figs[1], last.args.figs[2]).tr
    /\ last.dicts["literal"] = IF last.args.sum_kwargs[1] = "literal"
                                 THEN last.args.sum_kwargs[2] ELSE EmptyDict
    /\ \A d \in DOMAIN last.dicts \ {"literal"} : last.dicts[d] = last.entry.heap[d]

\* C8, witness: plot_model drew stacked components only and was given the
\* caller's dict with "show": False, which still has it.
C8_CallerDictKept ==
  /\ StackedOnlyCall
  /\ last.args.stacked # <<>>
  /\ last.exc = ""
  /\ last.args.sum_kwargs[1] = "caller"
  /\ Get(last.dicts["caller"], "show", "") = "False"
  /\ heap["caller"] = made

\* ------------------------------------------------------------- C9 and C10
NoComponentsCall ==
  /\ last # NoCall
  /\ last.fn \in {"plot_model", "compare_data_model"}
  /\ last.args.stacked = <<>>
  /\ last.args.unstacked = <<>>

\* C9: plot_model and compare_data_model without any model component raise
\* ValueError("Need to provide at least one model component.") and have, by
\* then, issued no call at all: no figure is created, no axes are drawn on.
C9_NoComponentsRefusedFirst ==
  NoComponentsCall =>
    /\ last.exc = "ValueError"
    /\ last.msg = "Need to provide at least one model component."
    /\ last.tr = <<>>

\* C9, witness: compare_data_model, given a figure and axes but no component,
\* has raised.
C9_RefusedWithGivenAxes ==
  /\ NoComponentsCall
  /\ last.fn = "compare_data_model"
  /\ AllGiven
  /\ last.exc = "ValueError"

SeveralHistsCall ==
  /\ last # NoCall
  /\ last.fn \in {"plot_hist", "compare_two_hist", "plot_comparison", "plot_mc",
                  "compare_data_mc", "plot_model", "compare_data_model"}
\* the event is a binning check of all the histograms of the call, as they
\* were given or flattened
ChecksAll(e) ==
  /\ e.op = "_check_binning_consistency"
  /\ \A h \in Elements(last.args.hists) :
       h \in Elements(e.hists)
         \/ (Len(h.axes) = 2 /\ _flatten_2d_hist(h) \in Elements(e.hists))

\* C10, as stated: in a call that takes several histograms, a binning check of
\* all the histograms of the call precedes every call on a figure or on axes,
\* and when the histograms of the call have not all the same binning no
\* figure is created and no axes are drawn on.
C10_BinningCheckedBeforeDrawing ==
  SeveralHistsCall =>
    /\ \A i \in Drawn : \E j \in 1..(i - 1) : ChecksAll(last.tr[j])
    /\ ~ Consistent(last.args.hists) => Drawn = {}

\* ------------------------------------------------------------------ C12
ErrorHistCall == last # NoCall /\ last.fn = "plot_error_hist"

DataComparisonCall ==
  last # NoCall /\ last.fn \in {"compare_data_model", "compare_data_mc"}

\* C13, as stated: a call of compare_data_model or compare_data_mc whose
\* histograms are not refused has had the comparison computed and labelled
\* with every option of comparison_kwargs as given, and with
\* h1_label="Data", comparison="ratio" and ratio_uncertainty="split" for
\* those not given.
C13_EveryOptionForwarded ==
  (DataComparisonCall /\ last.exc # "ValueError") =>
    /\ \E i \in 1..Len(last.tr) :
         /\ last.tr[i].op = "get_comparison"
         /\ last.tr[i].val[1] = Get(last.args.kw, "comparison", "ratio")
         /\ last.tr[i].val[2] = Get(last.args.kw, "ratio_uncertainty", "split")
         /\ "hist_1_uncertainty" \in DOMAIN last.args.kw
              => last.tr[i].val[3] = last.args.kw["hist_1_uncertainty"]
    /\ \E i \in 1..Len(last.tr) :
         /\ last.tr[i].op = "ax.set_ylabel"
         /\ last.tr[i].on = "new_ax_comparison"
         /\ last.tr[i].val = ComparisonLabel(Get(last.args.kw, "comparison", "ratio"),
                                             Get(last.args.kw, "h1_label", "Data"), "Pred.")

\* ------------------------------------------------------------------ C14
DataModelCall == last # NoCall /\ last.fn = "compare_data_model"
DataHist == last.args.hists[Len(last.args.hists)]
\* the error bars of the data on the main axes, and the comparisons computed
DataErrorbars ==
  {i \in 1..Len(last.tr) : last.tr[i].op = "ax.errorbar" /\ last.tr[i].on = "new_ax_main"}
ComparisonsComputed == {i \in 1..Len(last.tr) : last.tr[i].op = "get_comparison"}
YerrOf(uncertainty_type) ==
  IF uncertainty_type = "symmetrical" THEN "np.sqrt(hist.variances())"
  ELSE "[uncertainties_low, uncertainties_high]"

ComparisonCall == last # NoCall /\ last.fn = "plot_comparison" /\ last.exc = ""
ComparisonOf == Get(last.args.kw, "comparison", "ratio")
\* the calls of ax.set_ylim, ax.set_ylabel and ax.axhline, by their place
YlimsSet == {i \in 1..Len(last.tr) : last.tr[i].op = "ax.set_ylim"}
YlabelsSet == {i \in 1..Len(last.tr) : last.tr[i].op = "ax.set_ylabel"}
LinesDrawn == {i \in 1..Len(last.tr) : last.tr[i].op = "ax.axhline"}
YlimGiven == "comparison_ylim" \in DOMAIN last.args.kw
YlabelGiven == "comparison_ylabel" \in DOMAIN last.args.kw

C16_LabelAndLineForEveryComparison ==
  ComparisonCall =>
    /\ ~ YlabelGiven =>
         /\ Cardinality(LinesDrawn) = 1
         /\ \A i \in LinesDrawn :
              last.tr[i].val = <<IF ComparisonOf = "ratio" THEN "1" ELSE "0">>
         /\ Cardinality(YlabelsSet) = 1
         /\ \A i \in YlabelsSet : last.tr[i].val # <<>>
    /\ YlabelGiven =>
         \E i \in YlabelsSet :
           /\ last.tr[i].val = <<last.args.kw["comparison_ylabel"]>>
           /\ \A j \in YlabelsSet : j <= i

====
